---- MODULE Spec2Model ----
(***************************************************************************)
(* update_projects_file of scripts/fetch_contributions.py: the incremental *)
(* merge of categorised contribution entries into the projects document.   *)
(*                                                                         *)
(* Text is a sequence of tokens.  Structural characters ("#", "*", "[",    *)
(* "]", "(", ")", "-", "/", " ", "\n") are one token each; a literal word   *)
(* ("github.com/", "planemo", "Core", ...) is one token.  No word token is  *)
(* a substring of another and two word tokens are never adjacent, so an    *)
(* occurrence of a searched pattern in the characters is an occurrence in  *)
(* the tokens and conversely.  The trailer marker is spelled character by  *)
(* character because the code skips over it by its length in characters.   *)
(* Positions are 0-based, as in the source.                                *)
(***************************************************************************)
EXTENDS Integers, Sequences, FiniteSets, TLC

VARIABLES
    doc,        \* the document on disk when the invocation started
    file,       \* the document on disk
    cats,       \* categorized_entries, in iteration order: <<[cat, entries]>>
    content,    \* the in-memory buffer
    pruned,     \* the buffer as it was right after the stale-section removal
    mask,       \* per token of content: was it inserted during this run
    modified,   \* the modified flag
    pc,         \* "start", "cat" (top of the category loop), "entry", "done"
    ci,         \* index of the category being processed
    ei,         \* index of the entry being processed
    log,        \* one decision per entry, oldest first
    writes,     \* number of times the file was written in this run
    run,        \* 1 for the first invocation, 2 for a repeated one
    file1       \* the document on disk when the first invocation ended

vars == <<doc, file, cats, content, pruned, mask, modified, pc, ci, ei, log,
          writes, run, file1>>

----------------------------------------------------------------------------
(* Bound of the explored inputs: entries per category *)

MaxEntries == 2

----------------------------------------------------------------------------
(* Python string primitives on token sequences *)

NL == "\n"
SP == " "

Whitespace == {SP, NL, "\t"}

Min(S) == CHOOSE x \in S : \A y \in S : x <= y
Max(S) == CHOOSE x \in S : \A y \in S : x >= y

\* s[a:b] for 0 <= a, b <= len(s)
Slice(s, a, b) == SubSeq(s, a + 1, b)

\* s.find(sub, from): lowest 0-based index >= from where sub occurs, else -1
Find(s, sub, from) ==
    LET hits == {i \in from .. (Len(s) - Len(sub)) :
                    \A j \in 1 .. Len(sub) : s[i + j] = sub[j]}
    IN IF hits = {} THEN -1 ELSE Min(hits)

\* sub in s
Contains(s, sub) == Find(s, sub, 0) # -1

\* s.rstrip()
RStrip(s) ==
    LET keep == {i \in 1 .. Len(s) : s[i] \notin Whitespace}
    IN IF keep = {} THEN <<>> ELSE SubSeq(s, 1, Max(keep))

\* a splice that writes over the token at pos instead of moving it
SpliceOverwrite(s, pos, new) ==
    Slice(s, 0, pos) \o new
        \o (IF pos + 1 <= Len(s) THEN Slice(s, pos + 1, Len(s)) ELSE <<>>)

\* s[:pos] + new + s[pos:]
Splice(s, pos, new) == Slice(s, 0, pos) \o new \o Slice(s, pos, Len(s))

\* str.lower() of one token
LowerTok(t) ==
    CASE t = "Planemo" -> "planemo"
      [] t = "Tools" -> "tools"
      [] t = "Core" -> "core"
      [] t = "Infra" -> "infra"
      [] t = "Extra" -> "extra"
      [] t = "Next" -> "next"
      [] t = "PRs" -> "prs"
      [] t = "L" -> "l"
      [] t = "Notable Open-Source Contributions" -> "notable open-source contributions"
      [] t = "Recent Contributions" -> "recent contributions"
      [] OTHER -> t

Lower(s) == [i \in 1 .. Len(s) |-> LowerTok(s[i])]

----------------------------------------------------------------------------
(* Literals of update_projects_file *)

\* "## <emoji> Recent Contributions"; the emoji is part of the word token
StartMarker == <<"#", "#", SP, "Recent Contributions">>

\* "\n---\n\n*Last updated:", character by character
TrailerMarker ==
    <<NL, "-", "-", "-", NL, NL, "*", "L", "a", "s", "t", SP,
      "u", "p", "d", "a", "t", "e", "d", ":">>

\* the 20 of content.find("\n", end + 20)
TrailerSkip == 20

notable_section == <<"#", "#", SP, "Notable Open-Source Contributions">>

\* f"### {category}"
section_pattern(category) == <<"#", "#", "#", SP>> \o category

\* "\n##"
NextHeading == <<NL, "#", "#">>

\* f"github.com/{repo_name}"
UrlPattern(repo) == <<"github.com/">> \o repo

Stoplist == {<<"galaxy">>, <<"content">>, <<"utils">>, <<"tools">>}

\* repo_name.split("/")[-1].lower()
repo_short_name(repo) ==
    LET slashes == {i \in 1 .. Len(repo) : repo[i] = "/"}
    IN Lower(IF slashes = {} THEN repo
             ELSE SubSeq(repo, Max(slashes) + 1, Len(repo)))

\* the bullet line of one entry
FormatEntry(e) ==
    <<"-", SP, "*", "*", "[">> \o e.repo
        \o <<"]", "(", "https://", "github.com/">> \o e.repo
        \o <<")", "*", "*", SP, "-", SP>> \o e.description
        \o <<SP, "(", "[", "PRs", "]", "(">> \o e.pr_url
        \o <<")", ")", NL>>

RECURSIVE FormatAll(_)
FormatAll(es) ==
    IF es = <<>> THEN <<>> ELSE FormatEntry(Head(es)) \o FormatAll(Tail(es))

\* f"\n### {category}\n" followed by one bullet line per entry
new_section(category, entries) ==
    <<NL>> \o section_pattern(category) \o <<NL>> \o FormatAll(entries)

----------------------------------------------------------------------------
(* Stale-section removal and duplicate detection *)

\* a removal that ends at the trailer marker, not at the end of its line
PruneToMarkerEnd(c) ==
    IF ~Contains(c, StartMarker) THEN c
    ELSE LET start == Find(c, StartMarker, 0)
             trailer == Find(c, TrailerMarker, start)
         IN IF trailer = -1 THEN c
            ELSE RStrip(Slice(c, 0, start))
                    \o Slice(c, trailer + TrailerSkip, Len(c))

\* a removal that cuts to the end of the document when no trailer follows
PruneTruncating(c) ==
    IF ~Contains(c, StartMarker) THEN c
    ELSE LET start == Find(c, StartMarker, 0)
             trailer == Find(c, TrailerMarker, start)
             end == IF trailer = -1 THEN -1
                    ELSE Find(c, <<NL>>, trailer + TrailerSkip)
         IN IF end # -1
            THEN RStrip(Slice(c, 0, start)) \o Slice(c, end, Len(c))
            ELSE RStrip(Slice(c, 0, start))

\* lines 203-212: drop the old "Recent Contributions" section
Prune(c) ==
    IF ~Contains(c, StartMarker) THEN c
    ELSE LET start == Find(c, StartMarker, 0)
             trailer == Find(c, TrailerMarker, start)
         IN IF trailer = -1 THEN c
            ELSE LET end == Find(c, <<NL>>, trailer + TrailerSkip)
                 IN IF end # -1
                    THEN RStrip(Slice(c, 0, start)) \o Slice(c, end, Len(c))
                    ELSE RStrip(Slice(c, 0, start))

\* no "]" among c[a..b] (1-based, empty when a > b)
NoBracket(c, a, b) == \A x \in a .. b : c[x] # "]"

\* c[p], c[p+1] is "**"
BoldAt(c, p) == p >= 1 /\ p + 1 <= Len(c) /\ c[p] = "*" /\ c[p + 1] = "*"

\* re.search(rf"\*\*\[?[^]]*{short}[^]]*\]?\*\*", c, re.IGNORECASE):
\* "**", text without "]" that holds the short name, an optional "]", "**"
FuzzyMatch(c, short) ==
    LET n == Len(short)
    IN \E k \in 3 .. (Len(c) - n - 1) :
          /\ \A j \in 1 .. n : LowerTok(c[k + j - 1]) = short[j]
          /\ \E i \in 1 .. (k - 2) : BoldAt(c, i) /\ NoBracket(c, i + 2, k - 1)
          /\ \E e \in (k + n) .. (Len(c) - 1) :
                /\ BoldAt(c, e)
                /\ \/ NoBracket(c, k + n, e - 1)
                   \/ /\ e - 1 >= k + n
                      /\ c[e - 1] = "]"
                      /\ NoBracket(c, k + n, e - 2)

\* line 253: the exact URL check
UrlDuplicate(c, repo) == Contains(c, UrlPattern(repo))

\* lines 258-267: the short-name check, skipped for the generic names
FuzzyDuplicate(c, repo) ==
    /\ repo_short_name(repo) \notin Stoplist
    /\ FuzzyMatch(c, repo_short_name(repo))

\* a merge that never looks for the anchor
AnchorAssumed(c) == TRUE

\* line 223: notable_section in content
AnchorPresent(c) == Contains(c, notable_section)

\* line 220: section_pattern in content
CategoryPresent(c, category) == Contains(c, section_pattern(category))

\* lines 224-226: just after the line break that ends the anchor line
CreatePos(c) ==
    Find(c, <<NL>>, Find(c, notable_section, 0) + Len(notable_section)) + 1

\* lines 241-247 and 271-273: the end of the category's section
AppendPos(c, category) ==
    LET section_start == Find(c, section_pattern(category), 0)
        next_section == Find(c, NextHeading, section_start + 1)
        section_content == IF next_section = -1
                           THEN Slice(c, section_start, Len(c))
                           ELSE Slice(c, section_start, next_section)
    IN IF next_section # -1 THEN next_section
       ELSE section_start + Len(section_content)

\* the mask of a buffer after the same insertion
MaskSplice(m, pos, new) ==
    Slice(m, 0, pos) \o [i \in 1 .. Len(new) |-> TRUE] \o Slice(m, pos, Len(m))

----------------------------------------------------------------------------
(* The explored inputs: entries as generate_project_entries builds them *)

Repos == {<<"acme", "/", "planemo">>, <<"lab", "/", "tools">>,
          <<"lab", "/", "vgcn">>}

Categories == {<<"Core">>, <<"Infra">>}

\* line 171: the pull-request search URL of a repository
PrUrl(repo) ==
    <<"https://", "github.com/">> \o repo
        \o <<"/pulls?q=is%3Apr+author%3Aarash77+is%3Amerged">>

\* lines 177-182: the entry of a repository
EntryOf(repo) ==
    [repo |-> repo, description |-> <<"summary">>, pr_url |-> PrUrl(repo)]

SeqsUpTo(S, n) == UNION {[1 .. k -> S] : k \in 1 .. n}

Injective(f) == \A i, j \in DOMAIN f : i # j => f[i] # f[j]

EntryLists ==
    {[i \in DOMAIN rs |-> EntryOf(rs[i])] :
        rs \in {f \in SeqsUpTo(Repos, MaxEntries) : Injective(f)}}

ReposOf(entries) == {entries[i].repo : i \in DOMAIN entries}

\* a dict: distinct categories; every repository is grouped once
Inputs ==
    {<<>>} \cup
    {f \in SeqsUpTo([cat : Categories, entries : EntryLists],
                     Cardinality(Categories)) :
        \A i, j \in DOMAIN f :
            i # j => /\ f[i].cat # f[j].cat
                     /\ ReposOf(f[i].entries) \cap ReposOf(f[j].entries) = {}}

----------------------------------------------------------------------------
(* The explored documents: anchor, one section, a gap, stale sections, a  *)
(* following heading, each of them optional                                *)

OldLine == <<"-", SP, "old">>

BoldLine ==
    <<"-", SP, "*", "*", "Planemo", "*", "*", SP, "and", SP,
      "*", "*", "Tools", "*", "*">>

Heading(level, text) == [i \in 1 .. level |-> "#"] \o <<SP>> \o text

AnchorParts == {<<>>, notable_section \o <<NL>>}

\* a category section with a hand-written line
OldSection == Heading(3, <<"Core">>) \o <<NL>> \o OldLine

\* a category section with the generated line of a repository
DocumentedSection ==
    Heading(3, <<"Core">>) \o <<NL>>
        \o FormatEntry(EntryOf(<<"acme", "/", "planemo">>))

SectionParts ==
    {<<>>,
     OldSection,
     DocumentedSection,
     Heading(3, <<"Core", SP, "Extra">>) \o <<NL>> \o OldLine,
     Heading(4, <<"Core">>) \o <<NL>> \o OldLine,
     Heading(3, <<"Infra">>) \o <<NL>> \o BoldLine}

GapParts == {<<>>, <<NL>>, <<NL, NL>>}

StaleBody ==
    StartMarker \o <<NL>> \o FormatEntry(EntryOf(<<"lab", "/", "vgcn">>))
        \o TrailerMarker \o <<SP, "today", "*">>

StaleParts ==
    {<<>>, StaleBody, StaleBody \o <<NL>>,
     StartMarker \o <<NL>> \o OldLine \o <<NL>>}

SecondStaleParts == {<<>>, StaleBody \o <<NL>>}

NextParts == {<<>>, Heading(2, <<"Next">>) \o <<NL>>}

\* documents without a stale section: every anchor, section, gap and
\* following heading
PlainDocs ==
    {a \o s \o g \o n :
        a \in AnchorParts, s \in SectionParts, g \in GapParts,
        n \in NextParts}

\* documents with a stale section, after nothing or after a documented entry
StaleDocs ==
    {a \o s \o g \o e \o n :
        a \in AnchorParts, s \in {<<>>, DocumentedSection},
        g \in {<<>>, <<NL, NL>>}, e \in StaleParts \ {<<>>},
        n \in NextParts}

\* and the document that is the anchor line alone, without its line break
Docs == PlainDocs \cup StaleDocs \cup {notable_section}

\* documents for the repeated invocation: a second stale section may follow
RerunDocs ==
    {a \o s \o <<NL>> \o e \o f :
        a \in AnchorParts, s \in {<<>>, OldSection, DocumentedSection},
        e \in StaleParts, f \in SecondStaleParts}

----------------------------------------------------------------------------
(* update_projects_file, one action per step *)

Start(documents) ==
    /\ doc \in documents
    /\ file = doc
    /\ cats \in Inputs
    /\ content = <<>>
    /\ pruned = <<>>
    /\ mask = <<>>
    /\ modified = FALSE
    /\ pc = "start"
    /\ ci = 1
    /\ ei = 1
    /\ log = <<>>
    /\ writes = 0
    /\ run = 1
    /\ file1 = <<>>

Decision(category, entry, kind) ==
    [cat |-> category, repo |-> entry.repo, kind |-> kind]

DecideAll(category, entries, kind) ==
    [i \in DOMAIN entries |-> Decision(category, entries[i], kind)]

\* lines 194-196: nothing to add, the file is not even read
EarlyReturn ==
    /\ pc = "start"
    /\ cats = <<>>
    /\ pc' = "done"
    /\ UNCHANGED <<doc, file, cats, content, pruned, mask, modified, ci, ei,
                   log, writes, run, file1>>

\* lines 198-214: read the file, drop the stale section, clear the flag
ReadAndPrune ==
    /\ pc = "start"
    /\ cats # <<>>
    /\ content' = Prune(file)
    /\ pruned' = content'
    /\ mask' = [i \in 1 .. Len(content') |-> FALSE]
    /\ modified' = FALSE
    /\ ci' = 1
    /\ ei' = 1
    /\ pc' = "cat"
    /\ UNCHANGED <<doc, file, cats, log, writes, run, file1>>

\* lines 220-234: the category is not in the buffer and the anchor is
CreateCategory ==
    /\ pc = "cat"
    /\ ci <= Len(cats)
    /\ ~CategoryPresent(content, cats[ci].cat)
    /\ AnchorPresent(content)
    /\ LET block == new_section(cats[ci].cat, cats[ci].entries)
       IN /\ content' = Splice(content, CreatePos(content), block)
          /\ mask' = MaskSplice(mask, CreatePos(content), block)
    /\ modified' = TRUE
    /\ log' = log \o DecideAll(cats[ci].cat, cats[ci].entries, "created_section")
    /\ ci' = ci + 1
    /\ UNCHANGED <<doc, file, cats, pruned, pc, ei, writes, run, file1>>

\* lines 220-223: neither the category nor the anchor is in the buffer
SkipNoAnchor ==
    /\ pc = "cat"
    /\ ci <= Len(cats)
    /\ ~CategoryPresent(content, cats[ci].cat)
    /\ ~AnchorPresent(content)
    /\ log' = log \o DecideAll(cats[ci].cat, cats[ci].entries, "skipped_no_anchor")
    /\ ci' = ci + 1
    /\ UNCHANGED <<doc, file, cats, content, pruned, mask, modified, pc, ei,
                   writes, run, file1>>

\* lines 235-237: the category is in the buffer, walk its entries
EnterCategory ==
    /\ pc = "cat"
    /\ ci <= Len(cats)
    /\ CategoryPresent(content, cats[ci].cat)
    /\ pc' = "entry"
    /\ ei' = 1
    /\ UNCHANGED <<doc, file, cats, content, pruned, mask, modified, ci, log,
                   writes, run, file1>>

\* lines 253-255 and 258-267: the entry is already documented
SkipDuplicate ==
    /\ pc = "entry"
    /\ ei <= Len(cats[ci].entries)
    /\ \/ UrlDuplicate(content, cats[ci].entries[ei].repo)
       \/ FuzzyDuplicate(content, cats[ci].entries[ei].repo)
    /\ log' = Append(log, Decision(cats[ci].cat, cats[ci].entries[ei],
                                   "skipped_duplicate"))
    /\ ei' = ei + 1
    /\ UNCHANGED <<doc, file, cats, content, pruned, mask, modified, pc, ci,
                   writes, run, file1>>

\* lines 269-278: add the entry's line at the end of the section
AppendEntry ==
    /\ pc = "entry"
    /\ ei <= Len(cats[ci].entries)
    /\ ~UrlDuplicate(content, cats[ci].entries[ei].repo)
    /\ ~FuzzyDuplicate(content, cats[ci].entries[ei].repo)
    /\ LET new_entry == FormatEntry(cats[ci].entries[ei])
           insert_pos == AppendPos(content, cats[ci].cat)
       IN /\ content' = Splice(content, insert_pos, new_entry)
          /\ mask' = MaskSplice(mask, insert_pos, new_entry)
    /\ modified' = TRUE
    /\ log' = Append(log, Decision(cats[ci].cat, cats[ci].entries[ei],
                                   "appended"))
    /\ ei' = ei + 1
    /\ UNCHANGED <<doc, file, cats, pruned, pc, ci, writes, run, file1>>

\* line 237: the entries of the category are exhausted
EndCategory ==
    /\ pc = "entry"
    /\ ei > Len(cats[ci].entries)
    /\ pc' = "cat"
    /\ ci' = ci + 1
    /\ ei' = 1
    /\ UNCHANGED <<doc, file, cats, content, pruned, mask, modified, log,
                   writes, run, file1>>

\* a write that does not look at the modified flag
WriteUnconditionally ==
    /\ pc = "cat"
    /\ ci > Len(cats)
    /\ file' = content
    /\ writes' = writes + 1
    /\ pc' = "done"
    /\ UNCHANGED <<doc, cats, content, pruned, mask, modified, ci, ei, log,
                   run, file1>>

\* lines 280-283: something was added, write the buffer
WriteFile ==
    /\ pc = "cat"
    /\ ci > Len(cats)
    /\ modified
    /\ file' = content
    /\ writes' = writes + 1
    /\ pc' = "done"
    /\ UNCHANGED <<doc, cats, content, pruned, mask, modified, ci, ei, log,
                   run, file1>>

\* lines 284-285: nothing was added, the file is left alone
NoChanges ==
    /\ pc = "cat"
    /\ ci > Len(cats)
    /\ ~modified
    /\ pc' = "done"
    /\ UNCHANGED <<doc, file, cats, content, pruned, mask, modified, ci, ei,
                   log, writes, run, file1>>

Next ==
    \/ EarlyReturn
    \/ ReadAndPrune
    \/ CreateCategory
    \/ SkipNoAnchor
    \/ EnterCategory
    \/ SkipDuplicate
    \/ AppendEntry
    \/ EndCategory
    \/ WriteFile
    \/ NoChanges

Init == Start(Docs)

Spec == Init /\ [][Next]_vars

\* the script is invoked again with the same entries on the file it left
Rerun ==
    /\ pc = "done"
    /\ run = 1
    /\ run' = 2
    /\ file1' = file
    /\ doc' = file
    /\ content' = <<>>
    /\ pruned' = <<>>
    /\ mask' = <<>>
    /\ modified' = FALSE
    /\ pc' = "start"
    /\ ci' = 1
    /\ ei' = 1
    /\ log' = <<>>
    /\ writes' = 0
    /\ UNCHANGED <<file, cats>>

InitRerun == Start(RerunDocs)

NextRerun == Next \/ Rerun

SpecRerun == InitRerun /\ [][NextRerun]_vars

----------------------------------------------------------------------------
(* Vocabulary of the properties *)

\* the document was read and pruned (not so when there was nothing to add)
Ran == pc \in {"cat", "entry", "done"} /\ cats # <<>>

Adding == {"created_section", "appended"}

AddedRepos == {log[i].repo : i \in {j \in DOMAIN log : log[j].kind \in Adding}}

AllEntries == UNION {ReposOf(cats[k].entries) : k \in DOMAIN cats}

\* the text cut at its line breaks
RECURSIVE SplitLines(_)
SplitLines(s) ==
    IF s = <<>> THEN <<>>
    ELSE LET k == Find(s, <<NL>>, 0)
         IN IF k = -1 THEN <<s>>
            ELSE <<Slice(s, 0, k)>> \o SplitLines(Slice(s, k + 1, Len(s)))

NonBlank(ls) == SelectSeq(ls, LAMBDA l : l # <<>>)

\* number of "#" a line starts with
Hashes(line) ==
    LET other == {i \in 1 .. Len(line) : line[i] # "#"}
    IN IF other = {} THEN Len(line) ELSE Min(other) - 1

\* a heading line of level 1..deepest
IsHeading(line, deepest) ==
    /\ Hashes(line) \in 1 .. deepest
    /\ Len(line) > Hashes(line)
    /\ line[Hashes(line) + 1] = SP

\* the text has the line "### <category>"
HasSection(text, category) ==
    \E i \in DOMAIN SplitLines(text) :
        SplitLines(text)[i] = section_pattern(category)

\* the lines from "### <category>" to the next heading of level 1..3
SectionBody(text, category) ==
    LET ls == SplitLines(text)
        h == Min({i \in DOMAIN ls : ls[i] = section_pattern(category)})
        following == {j \in (h + 1) .. Len(ls) : IsHeading(ls[j], 3)}
    IN SubSeq(ls, h + 1,
              IF following = {} THEN Len(ls) ELSE Min(following) - 1)

\* "- **[identifier](https://github.com/identifier)** - description ([PRs](pr_url))"
BulletLine(e) ==
    <<"-", SP, "*", "*", "[">> \o e.repo \o <<"]", "(", "https://", "github.com/">>
        \o e.repo \o <<")", "*", "*", SP, "-", SP>> \o e.description
        \o <<SP, "(", "[", "PRs", "]", "(">> \o e.pr_url \o <<")", ")">>

\* the tokens c[lo..hi] of the buffer that were not inserted during the run
RECURSIVE Kept(_, _, _, _)
Kept(c, m, lo, hi) ==
    IF lo > hi THEN <<>>
    ELSE IF lo = hi THEN (IF m[lo] THEN <<>> ELSE <<c[lo]>>)
    ELSE LET mid == (lo + hi) \div 2
         IN Kept(c, m, lo, mid) \o Kept(c, m, mid + 1, hi)

\* the length of the text the decisions log[i..] account for: a bullet line
\* per added entry and a heading block per created category not in seen
RECURSIVE InsertedLen(_, _)
InsertedLen(i, seen) ==
    IF i > Len(log) THEN 0
    ELSE LET d == log[i]
             line == IF d.kind \in Adding
                     THEN Len(BulletLine(EntryOf(d.repo))) + 1 ELSE 0
             block == IF d.kind = "created_section" /\ d.cat \notin seen
                      THEN Len(section_pattern(d.cat)) + 2 ELSE 0
         IN line + block
              + InsertedLen(i + 1, IF d.kind = "created_section"
                                   THEN seen \cup {d.cat} ELSE seen)

\* where the stale section starts, and its trailer after that (-1: none)
StaleStart == Find(doc, StartMarker, 0)
StaleTrailer == IF StaleStart = -1 THEN -1 ELSE Find(doc, TrailerMarker, StaleStart)

----------------------------------------------------------------------------
(* C1: an entry whose "github.com/<identifier>" occurs in the document     *)
(* after pruning gets no bullet line, whether its category exists or is    *)
(* created under the anchor heading.                                       *)
C1_DuplicateSuppression ==
    pc = "done" =>
        \A r \in AddedRepos : ~Contains(pruned, UrlPattern(r))

----------------------------------------------------------------------------
----------------------------------------------------------------------------
(* C3: a second invocation with the same entries adds nothing, creates     *)
(* nothing, does not write, and leaves the file as the first one left it.  *)
C3_Idempotence ==
    (run = 2 /\ pc = "done") =>
        /\ AddedRepos = {}
        /\ ~modified
        /\ writes = 0
        /\ file = file1

----------------------------------------------------------------------------
(* C4: two new entries merged into a section that already has lines come   *)
(* after those lines, in input order, each on a line of its own, and the   *)
(* lines that were there are unchanged.                                    *)
C4_AppendPreservesSection ==
    pc = "done" =>
        \A k \in DOMAIN cats :
            LET c == cats[k].cat
                es == cats[k].entries
            IN (/\ HasSection(pruned, c)
                /\ NonBlank(SectionBody(pruned, c)) # <<>>
                /\ Len(es) = 2
                /\ \A x \in 1 .. 2 :
                      \E i \in DOMAIN log :
                          log[i] = Decision(c, es[x], "appended")) =>
                   /\ HasSection(content, c)
                   /\ NonBlank(SectionBody(content, c))
                        = NonBlank(SectionBody(pruned, c))
                            \o <<BulletLine(es[1]), BulletLine(es[2])>>

----------------------------------------------------------------------------
(* C5: merging one category with one entry into a document that is only    *)
(* the anchor line, with or without its line break, gives the anchor       *)
(* line, then the "### <category>" line, then the one bullet line.         *)
C5_NewCategoryUnderAnchor ==
    (/\ pc = "done"
     /\ doc \in {notable_section, notable_section \o <<NL>>}
     /\ Len(cats) = 1
     /\ Len(cats[1].entries) = 1) =>
        NonBlank(SplitLines(file))
            = <<notable_section, section_pattern(cats[1].cat),
                BulletLine(cats[1].entries[1])>>

----------------------------------------------------------------------------
(* C6: the file is written at most once, only when every category and      *)
(* entry has been processed, and exactly when an entry was appended or a   *)
(* category created; the file differs from the one read only by that write. *)
C6_SingleConditionalWrite ==
    /\ writes \in {0, 1}
    /\ writes = 1 => (pc = "done" /\ file = content
                        /\ {log[i].repo : i \in DOMAIN log} = AllEntries)
    /\ writes = 0 => file = doc
    /\ pc = "done" => (writes = 1 <=> AddedRepos # {})

C6_Witness ==
    /\ pc = "done"
    /\ writes = 1
    /\ pruned # doc
    /\ Len(cats) = 2
    /\ \E i \in DOMAIN log : log[i].kind = "skipped_duplicate"
    /\ \E i \in DOMAIN log : log[i].kind = "created_section"

----------------------------------------------------------------------------
(* C7: with the start marker and a trailer marker after it in the          *)
(* document, the buffer the categories are merged into is the text before  *)
(* the start marker without its trailing whitespace, followed by the text  *)
(* from the line break that ends the trailer's line.                       *)
C7_StalePruned ==
    (Ran /\ StaleTrailer # -1) =>
        LET before == SubSeq(doc, 1, StaleStart)
            tail == SubSeq(doc, StaleTrailer + Len(TrailerMarker) + 1, Len(doc))
            breaks == {i \in DOMAIN tail : tail[i] = NL}
            after == IF breaks = {} THEN <<>>
                     ELSE SubSeq(tail, Min(breaks), Len(tail))
            stripped == Len(pruned) - Len(after)
        IN /\ stripped \in 0 .. Len(before)
           /\ SubSeq(pruned, 1, stripped) = SubSeq(before, 1, stripped)
           /\ SubSeq(pruned, stripped + 1, Len(pruned)) = after
           /\ stripped > 0 => before[stripped] \notin Whitespace
           /\ \A i \in (stripped + 1) .. Len(before) : before[i] \in Whitespace
           /\ (pc = "cat" /\ ci = 1) => content = pruned

C7_Witness ==
    /\ pc = "cat"
    /\ ci = 1
    /\ StaleTrailer # -1
    /\ StaleStart > 0
    /\ doc[StaleStart] = NL
    /\ Len(pruned) > 1
    /\ pruned[Len(pruned) - 1] = "Next"
    /\ Contains(pruned, notable_section)

----------------------------------------------------------------------------
(* C8 as stated: with the start marker and no trailer marker after it, the *)
(* document is cut from the start marker to its end.                       *)
C8_MissingTrailerTruncates ==
    (Ran /\ StaleStart # -1 /\ StaleTrailer = -1) =>
        /\ Len(pruned) <= StaleStart
        /\ pruned = SubSeq(doc, 1, Len(pruned))

(* C8 as amended: with the start marker and no trailer marker after it,    *)
(* pruning leaves the document as it is; the document is cut from the      *)
(* start marker to its end only when the trailer marker is found and no    *)
(* line break follows it.                                                  *)
C8_MissingTrailerKeepsDocument ==
    /\ (Ran /\ StaleStart # -1 /\ StaleTrailer = -1) => pruned = doc
    /\ (Ran /\ StaleStart # -1 /\ pruned = RStrip(SubSeq(doc, 1, StaleStart))) =>
          /\ StaleTrailer # -1
          /\ \A i \in (StaleTrailer + Len(TrailerMarker) + 1) .. Len(doc) :
                doc[i] # NL

C8_Witness ==
    /\ pc = "done"
    /\ StaleStart # -1
    /\ StaleTrailer = -1
    /\ pruned = doc
    /\ writes = 1
    /\ Contains(file, StartMarker)

----------------------------------------------------------------------------
(* C9: the entries of a category are appended into an existing section     *)
(* only if the buffer has the line "### <category>", exactly.              *)
C9_ExactHeadingMatch ==
    pc = "entry" => HasSection(content, cats[ci].cat)

----------------------------------------------------------------------------
(* C10: after pruning the buffer only grows by insertions of generated     *)
(* text: without the inserted tokens it is the pruned document, and the    *)
(* inserted tokens are those of the created sections and appended lines.   *)
C10_InsertionOnly ==
    Ran =>
        /\ Len(mask) = Len(content)
        /\ Kept(content, mask, 1, Len(content)) = pruned
        /\ Len(content) - Len(pruned) = InsertedLen(1, {})

C10_Witness ==
    /\ pc = "done"
    /\ pruned # doc
    /\ \E i \in DOMAIN log : log[i].kind = "appended"
    /\ \E i \in DOMAIN log : log[i].kind = "created_section"
    /\ \E i \in DOMAIN mask : mask[i]
    /\ ~mask[Len(mask)]

====
